---- MODULE Spec2Model ----
(***************************************************************************)
(* tornet: the rotation controller of src/tornet/tornet.py (main,          *)
(* initialize_environment, wait_for_tor, ma_ip, change_ip_repeatedly,      *)
(* stop_services, signal_handler) and the driver script                    *)
(* src/tornet/test_sample.py, as one sequential process that signals can   *)
(* interrupt between any two steps.                                        *)
(***************************************************************************)
EXTENDS Integers, Sequences, FiniteSets, TLC

(***************************************************************************)
(* Bounds of the model.                                                    *)
(***************************************************************************)
MaxLen == 3
MaxCount == 3
MaxCycles == 2
MaxSignals == 2

(***************************************************************************)
(* Program constants.                                                      *)
(***************************************************************************)
InitTimeout == 30
ReloadTimeout == 30
SubTimeout == 5
Backoff == 2
DefaultCount == 10

(***************************************************************************)
(* Strings are sequences of one-character strings.  The interval argument  *)
(* is a value with its Python type: argparse's default is the int 60, a    *)
(* given flag is a str.                                                    *)
(***************************************************************************)
Alphabet == {"0", "1", "-", "x"}
Digits == {"0", "1", "2", "3", "4", "5", "6", "7", "8", "9"}
Sixty == <<"6", "0">>

StrArg(s) == [type |-> "str", v |-> s]
IntArg(s) == [type |-> "int", v |-> s]
NoArg == [type |-> "none", v |-> <<>>]

Strings == UNION {[1..k -> Alphabet] : k \in 0..MaxLen}

DigitVal(c) ==
    CASE c = "0" -> 0 [] c = "1" -> 1 [] c = "2" -> 2 [] c = "3" -> 3
      [] c = "4" -> 4 [] c = "5" -> 5 [] c = "6" -> 6 [] c = "7" -> 7
      [] c = "8" -> 8 [] c = "9" -> 9

\* int(s) succeeds on a non-empty string of decimal digits
IsNumeric(s) == Len(s) > 0 /\ \A k \in 1..Len(s) : s[k] \in Digits

RECURSIVE int(_)
int(s) == IF Len(s) = 0 THEN 0
          ELSE 10 * int(SubSeq(s, 1, Len(s) - 1)) + DigitVal(s[Len(s)])

\* s.split("-"): the pieces between the separators, empty pieces included
RECURSIVE split(_)
split(s) ==
    IF \A k \in 1..Len(s) : s[k] # "-" THEN <<s>>
    ELSE LET p == CHOOSE k \in 1..Len(s) :
                     s[k] = "-" /\ \A j \in 1..(k - 1) : s[j] # "-"
         IN <<SubSeq(s, 1, p - 1)>> \o split(SubSeq(s, p + 1, Len(s)))

\* randint with an upper bound that is one too large
randint_PastMax(a, b) == a..(b + 1)

\* random.randint(a, b): any integer of the inclusive range
randint(a, b) == a..b

\* the sleep-time computation with a fixed interval taken as the upper bound
\* of a range from 0
SleepDraw_FixedAsRange(interval) ==
    IF interval.type # "str"
    THEN [fault |-> "AttributeError", values |-> {}]
    ELSE LET inte == split(interval.v) IN
         IF ~IsNumeric(inte[1])
         THEN [fault |-> "ValueError", values |-> {}]
         ELSE IF Len(inte) < 2
         THEN [fault |-> "none", values |-> 0..int(interval.v)]
         ELSE IF ~IsNumeric(inte[2])
         THEN [fault |-> "ValueError", values |-> {}]
         ELSE IF int(inte[1]) > int(inte[2])
         THEN [fault |-> "ValueError", values |-> {}]
         ELSE [fault |-> "none",
               values |-> int(inte[1])..int(inte[2])]

(***************************************************************************)
(* The sleep-time computation at the head of each loop iteration:          *)
(*     try:    inte = interval.split("-")                                  *)
(*             sleep_time = random.randint(int(inte[0]), int(inte[1]))     *)
(*     except IndexError: sleep_time = int(interval)                       *)
(* The result is the exception that leaves the try statement ("none" when  *)
(* there is none) and the set of values sleep_time can take.               *)
(***************************************************************************)
SleepDraw(interval) ==
    IF interval.type # "str"
    THEN [fault |-> "AttributeError", values |-> {}]
    ELSE LET inte == split(interval.v) IN
         IF ~IsNumeric(inte[1])
         THEN [fault |-> "ValueError", values |-> {}]
         ELSE IF Len(inte) < 2
         THEN [fault |-> "none", values |-> {int(interval.v)}]
         ELSE IF ~IsNumeric(inte[2])
         THEN [fault |-> "ValueError", values |-> {}]
         ELSE IF randint(int(inte[1]), int(inte[2])) = {}
         THEN [fault |-> "ValueError", values |-> {}]
         ELSE [fault |-> "none",
               values |-> randint(int(inte[1]), int(inte[2]))]

\* a loop that runs one iteration too many
LoopContinues_OffByOne(count, i) == count = 0 \/ i <= count
\* a loop that takes count = 0 as "no iteration"
LoopContinues_ZeroIsNone(count, i) == i < count

\* while True (count == 0) / for _ in range(count)
LoopContinues(count, i) == count = 0 \/ i < count


(***************************************************************************)
(* Addresses.  ma_ip_tor returns None on a transport failure and whatever  *)
(* the "IP" field holds otherwise; ma_ip_normal returns None or the        *)
(* stripped body, which may be the empty string.                           *)
(***************************************************************************)
NoneIp == "None"
Addrs == {NoneIp, "", "A", "B"}
\* a test for None only, which takes the empty string for an address
Truthy_AnyString(ip) == ip # NoneIp
\* if ip: / ip2 or ip1 / if ip1 and ip2
Truthy(ip) == ip # NoneIp /\ ip # ""

\* ma_ip: if ip1 and ip2 and ip1 != ip2: log_warn(...)
StaleWarn(a, b) == Truthy(a) /\ Truthy(b) /\ a # b
\* ma_ip preferring the first result
MaIpResult_First(a, b) == IF Truthy(a) THEN a ELSE b
\* ma_ip without the fallback to the first result
MaIpResult_SecondOnly(a, b) == b
\* ma_ip: return ip2 or ip1
MaIpResult(a, b) == IF Truthy(b) THEN b ELSE a

Signals == {"SIGINT", "SIGQUIT", "SIGBREAK", "SIGTERM"}
\* hasattr(signal, 'SIGBREAK') holds on Windows only, SIGQUIT elsewhere
PlatformSignals(win) ==
    IF win THEN {"SIGINT", "SIGBREAK", "SIGTERM"}
    ELSE {"SIGINT", "SIGQUIT", "SIGTERM"}

VARIABLES
    entry,        \* "main" (console script) or "test_sample" (driver script)
    windows,      \* is_windows()
    docker,       \* os.environ.get('DOCKER_ENV')
    selfMatch,    \* "pkill -f tornet" matches this process's command line
    tor,          \* the Tor process is running
    started,      \* this process has called start_tor_service
    degraded,     \* initialize_environment has logged that Tor did not respond
    pc,           \* position of the main thread
    site,         \* caller of wait_for_tor / ma_ip / print_ip: "init", "loop",
                  \* "ip" (main with --ip)
    ctx,          \* caller of stop_services: "handler", "atexit" or "main"
    fault,        \* exception that left main uncaught, "none" if none
    exitKind,     \* how the process ended
    handlers,     \* signals with signal_handler installed
    atexitReg,    \* atexit.register(stop_services) done
    atexitRan,    \* the exit hooks have been started
    signals,      \* number of signals handled by signal_handler
    interrupted,  \* what the first handled signal interrupted
    interval,     \* change_ip_repeatedly's interval
    count,        \* change_ip_repeatedly's count
    timeout,      \* wait_for_tor's timeout
    elapsed,      \* wait_for_tor: time.time() - start
    lastConn,     \* wait_for_tor: outcome of the last connection attempt
    ready,        \* wait_for_tor's return value
    ip1, ip2, ip, \* ma_ip's two proxy results and its return value
    torCalls,     \* ma_ip_tor calls of the current ma_ip call
    normalCalls,  \* ma_ip_normal calls of the current ma_ip call
    stale,        \* stale-circuit warnings of the current ma_ip call
    i,            \* completed loop iterations
    sleep_time,   \* the loop's sleep_time
    slept,        \* loop sleeps that ran to their end
    varied,       \* some iteration drew a sleep_time other than the one before
    reloads,      \* reload_tor_service calls
    reloadOk,     \* some reload command succeeded
    resolves,     \* ma_ip calls
    stopCalls,    \* stop_services calls
    stopCmds      \* service-stop commands issued

env == <<entry, windows, docker, selfMatch>>
ctl == <<pc, site, ctx, fault, exitKind>>
sigs == <<handlers, atexitReg, atexitRan, signals, interrupted>>
args == <<interval, count>>
probe == <<timeout, elapsed, lastConn, ready>>
res == <<ip1, ip2, ip, torCalls, normalCalls, stale>>
loop == <<i, sleep_time, slept, varied>>
cnt == <<reloads, reloadOk, resolves>>
stp == <<stopCalls, stopCmds>>
vars == <<env, tor, started, degraded, ctl, sigs, args, probe, res, loop, cnt,
          stp>>

\* the values locals have outside their function
NoProbe == timeout = 0 /\ elapsed = 0 /\ lastConn = "none" /\ ready = FALSE
NoRes == /\ ip1 = NoneIp /\ ip2 = NoneIp /\ ip = NoneIp
         /\ torCalls = 0 /\ normalCalls = 0 /\ stale = 0

Init ==
    /\ entry \in {"main", "test_sample"}
    /\ windows \in BOOLEAN
    /\ docker \in BOOLEAN
    /\ selfMatch \in BOOLEAN
    /\ windows => ~selfMatch           \* stop_services runs no pkill there
    /\ tor \in BOOLEAN
    /\ started = FALSE
    /\ degraded = FALSE
    /\ pc = "start" /\ site = "none" /\ ctx = "none"
    /\ fault = "none" /\ exitKind = "none"
    /\ handlers = {} /\ atexitReg = FALSE /\ atexitRan = FALSE
    /\ signals = 0 /\ interrupted = "none"
    /\ interval = NoArg /\ count = 0
    /\ NoProbe
    /\ NoRes
    /\ i = 0 /\ sleep_time = 0 /\ slept = 0 /\ varied = FALSE
    /\ reloads = 0 /\ reloadOk = FALSE /\ resolves = 0
    /\ stopCalls = 0 /\ stopCmds = 0

(***************************************************************************)
(* main, lines 413-419: the handlers main installs.                        *)
(***************************************************************************)
\* main without its first signal.signal call
MainHandlers_NoInterrupt(win) == IF win THEN {"SIGBREAK"} ELSE {"SIGQUIT"}
MainHandlers(win) == {"SIGINT"} \cup (IF win THEN {"SIGBREAK"} ELSE {"SIGQUIT"})
\* test_sample.py, lines 9-11
TestHandlers(win) == {"SIGINT"} \cup (IF win THEN {"SIGBREAK"} ELSE {})

MainRegister ==
    /\ pc = "start" /\ entry = "main"
    /\ handlers' = MainHandlers(windows)
    /\ pc' = "parse"
    /\ UNCHANGED <<env, started, degraded, tor, site, ctx, fault, exitKind,
                   atexitReg, atexitRan, signals, interrupted, args, probe,
                   res, loop, cnt, stp>>

\* test_sample.py, lines 9-12, then initialize_environment() on line 16
TestRegister ==
    /\ pc = "start" /\ entry = "test_sample"
    /\ handlers' = TestHandlers(windows)
    /\ atexitReg' = TRUE
    /\ pc' = "init_begin"
    /\ UNCHANGED <<env, started, degraded, tor, site, ctx, fault, exitKind,
                   atexitRan, signals, interrupted, args, probe, res, loop,
                   cnt, stp>>

(***************************************************************************)
(* main, lines 422-451.  --ip shows the current address and returns        *)
(* (before Tor is looked for); without Tor installed main returns;         *)
(* --auto-fix reinstalls and returns; --stop calls stop_services and       *)
(* returns; otherwise main goes on to initialize_environment.  The         *)
(* interval and the count are first read at the call of                    *)
(* change_ip_repeatedly (CallLoop).                                        *)
(***************************************************************************)
ParseArgs ==
    /\ pc = "parse"
    /\ \E ipFlag, installed, autoFix, stopFlag \in BOOLEAN :
          IF ipFlag
          THEN /\ site' = "ip" /\ pc' = "ma_begin"
               /\ UNCHANGED <<ctx, exitKind>>
          ELSE IF ~installed \/ autoFix
          THEN /\ pc' = "exiting" /\ exitKind' = "return"
               /\ UNCHANGED <<site, ctx>>
          ELSE IF stopFlag
          THEN /\ ctx' = "main" /\ pc' = "stop_begin"
               /\ UNCHANGED <<site, exitKind>>
          ELSE /\ pc' = "init_begin"
               /\ UNCHANGED <<site, ctx, exitKind>>
    /\ UNCHANGED <<env, started, degraded, tor, fault, sigs, args, probe, res,
                   loop, cnt, stp>>

(***************************************************************************)
(* initialize_environment, lines 154-164: start the service unless in      *)
(* Docker, then call wait_for_tor(timeout=30).                             *)
(***************************************************************************)
InitStart ==
    /\ pc = "init_begin"
    /\ IF docker THEN tor' = tor /\ started' = started
                 ELSE tor' \in {tor, TRUE} /\ started' = TRUE
    /\ site' = "init"
    /\ timeout' = InitTimeout /\ elapsed' = 0 /\ lastConn' = "none"
    /\ ready' = FALSE
    /\ pc' = "wait_check"
    /\ UNCHANGED <<env, degraded, ctx, fault, exitKind, sigs, args, res, loop,
                   cnt, stp>>

(***************************************************************************)
(* wait_for_tor, lines 391-407.                                            *)
(*     while time.time() - start < timeout:                                *)
(*         try: connect with settimeout(5); return True                    *)
(*         except Exception: time.sleep(2)                                 *)
(*     return False                                                        *)
(***************************************************************************)
\* a deadline test that lets an attempt start at the deadline
WaitContinues_Inclusive(e, t) == e <= t
WaitContinues(e, t) == e < t

WaitCheck ==
    /\ pc = "wait_check"
    /\ IF WaitContinues(elapsed, timeout)
       THEN pc' = "wait_connect" /\ ready' = ready
       ELSE pc' = "wait_ret" /\ ready' = FALSE
    /\ UNCHANGED <<env, started, degraded, tor, site, ctx, fault, exitKind,
                   sigs, args, timeout, elapsed, lastConn, res, loop, cnt,
                   stp>>

\* one connection attempt: it takes d <= 5 and succeeds only through a
\* running Tor
WaitConnect ==
    /\ pc = "wait_connect"
    /\ \E d \in 0..SubTimeout, ok \in BOOLEAN :
          /\ ok => tor
          /\ elapsed' = elapsed + d
          /\ IF ok
             THEN lastConn' = "ok" /\ ready' = TRUE /\ pc' = "wait_ret"
             ELSE lastConn' = "fail" /\ ready' = ready /\ pc' = "wait_backoff"
    /\ UNCHANGED <<env, started, degraded, tor, site, ctx, fault, exitKind,
                   sigs, args, timeout, res, loop, cnt, stp>>

WaitBackoff ==
    /\ pc = "wait_backoff"
    /\ elapsed' = elapsed + Backoff
    /\ pc' = "wait_check"
    /\ UNCHANGED <<env, started, degraded, tor, site, ctx, fault, exitKind,
                   sigs, args, timeout, lastConn, ready, res, loop, cnt, stp>>

(***************************************************************************)
(* wait_for_tor returns to its caller.  initialize_environment (lines      *)
(* 164-168) logs "Tor did not respond in time" when the result is False    *)
(* and goes on to print_ip(ma_ip()); reload_tor_service (line 123) drops   *)
(* the result and returns to change_ip, which calls ma_ip (line 272).      *)
(***************************************************************************)
WaitReturn ==
    /\ pc = "wait_ret"
    /\ pc' = "ma_begin"
    /\ degraded' = IF site = "init" THEN ~ready ELSE degraded
    /\ timeout' = 0 /\ elapsed' = 0 /\ lastConn' = "none" /\ ready' = FALSE
    /\ UNCHANGED <<env, started, tor, site, ctx, fault, exitKind, sigs, args,
                   res, loop, cnt, stp>>

(***************************************************************************)
(* ma_ip, lines 184-195.                                                   *)
(***************************************************************************)
\* is_tor_running(), then ma_ip_tor() for ip1, which returns within its
\* timeout=10, or the call of ma_ip_normal(), whose requests.get has no
\* timeout and returns when the network answers or fails
MaIpBegin ==
    /\ pc = "ma_begin"
    /\ resolves' = resolves + 1
    /\ stale' = 0 /\ ip2' = NoneIp /\ ip' = NoneIp
    /\ IF tor
       THEN /\ \E a \in Addrs : ip1' = a
            /\ torCalls' = 1 /\ normalCalls' = 0
            /\ pc' = "ma_settle"
       ELSE /\ ip1' = NoneIp
            /\ torCalls' = 0 /\ normalCalls' = 1
            /\ pc' = "ma_normal"
    /\ UNCHANGED <<env, started, degraded, tor, site, ctx, fault, exitKind,
                   sigs, args, probe, loop, reloads, reloadOk, stp>>

\* ma_ip_normal, lines 251-257: the response or the RequestException
\* arrives and ma_ip returns the stripped body or None
MaIpNormal ==
    /\ pc = "ma_normal"
    /\ \E a \in Addrs : ip' = a
    /\ pc' = "ma_ret"
    /\ UNCHANGED <<env, started, degraded, tor, site, ctx, fault, exitKind,
                   sigs, args, probe, ip1, ip2, torCalls, normalCalls, stale,
                   loop, cnt, stp>>

\* time.sleep(5)
MaIpSettle ==
    /\ pc = "ma_settle"
    /\ pc' = "ma_second"
    /\ UNCHANGED <<env, started, degraded, tor, site, ctx, fault, exitKind,
                   sigs, args, probe, res, loop, cnt, stp>>

\* ip2 = ma_ip_tor(); the stale-circuit warning; return ip2 or ip1
MaIpSecond ==
    /\ pc = "ma_second"
    /\ \E b \in Addrs :
          /\ ip2' = b
          /\ stale' = IF StaleWarn(ip1, b) THEN stale + 1 ELSE stale
          /\ ip' = MaIpResult(ip1, b)
    /\ torCalls' = torCalls + 1
    /\ pc' = "ma_ret"
    /\ UNCHANGED <<env, started, degraded, tor, site, ctx, fault, exitKind,
                   sigs, args, probe, ip1, normalCalls, loop, cnt, stp>>

(***************************************************************************)
(* ma_ip returns its result.  initialize_environment passes it to print_ip *)
(* whatever it is (line 168); the loop (lines 292-293, 306-307) and main   *)
(* with --ip (lines 433-435) call print_ip only if it is truthy; otherwise *)
(* the loop ends the iteration and main returns.                           *)
(***************************************************************************)
MaIpReturn ==
    /\ pc = "ma_ret"
    /\ IF site = "init" \/ Truthy(ip)
       THEN pc' = "print_ip" /\ i' = i /\ exitKind' = exitKind
       ELSE IF site = "ip"
       THEN pc' = "exiting" /\ i' = i /\ exitKind' = "return"
       ELSE pc' = "loop_head" /\ i' = i + 1 /\ exitKind' = exitKind
    /\ ip1' = NoneIp /\ ip2' = NoneIp
    /\ ip' = IF site = "init" \/ Truthy(ip) THEN ip ELSE NoneIp
    /\ torCalls' = 0 /\ normalCalls' = 0 /\ stale' = 0
    /\ UNCHANGED <<env, started, degraded, tor, site, ctx, fault, sigs, args,
                   probe, sleep_time, slept, varied, cnt, stp>>

\* print_ip(ip), lines 313-320; in the loop the iteration ends after it,
\* with --ip main returns
PrintIp ==
    /\ pc = "print_ip"
    /\ ip' = NoneIp
    /\ IF site = "init"
       THEN pc' = "call_loop" /\ i' = i /\ exitKind' = exitKind
       ELSE IF site = "ip"
       THEN pc' = "exiting" /\ i' = i /\ exitKind' = "return"
       ELSE pc' = "loop_head" /\ i' = i + 1 /\ exitKind' = exitKind
    /\ UNCHANGED <<env, started, degraded, tor, site, ctx, fault, sigs, args,
                   probe, ip1, ip2, torCalls, normalCalls, stale,
                   sleep_time, slept, varied, cnt, stp>>

(***************************************************************************)
(* The call of change_ip_repeatedly: main, line 452, with args.interval    *)
(* and args.count (--interval: type=str, default=60, an int; --count:      *)
(* type=int, default=10); test_sample.py, line 27, with "60" and 0.        *)
(***************************************************************************)
IntervalArgs == {IntArg(Sixty)} \cup {StrArg(s) : s \in Strings \cup {Sixty}}
CountArgs == (-1)..MaxCount
ArgPairs == (IntervalArgs \X CountArgs) \cup {<<IntArg(Sixty), DefaultCount>>}

CallLoop ==
    /\ pc = "call_loop"
    /\ \E a \in ArgPairs :
          /\ entry = "test_sample" => a = <<StrArg(Sixty), 0>>
          /\ interval' = a[1]
          /\ count' = a[2]
    /\ site' = "loop"
    /\ degraded' = FALSE                \* initialize_environment has returned
    /\ pc' = "loop_head"
    /\ UNCHANGED <<env, started, tor, ctx, fault, exitKind, sigs, probe, res,
                   loop, cnt, stp>>

(***************************************************************************)
(* change_ip_repeatedly, lines 280-307.  Both branches run the same body;  *)
(* i counts the completed iterations (the for loop's position; the while   *)
(* loop has none and is followed for MaxCycles iterations).                *)
(***************************************************************************)
LoopHead ==
    /\ pc = "loop_head"
    /\ count = 0 => i < MaxCycles
    /\ IF LoopContinues(count, i)
       THEN LET d == SleepDraw(interval) IN
            IF d.fault # "none"
            THEN /\ fault' = d.fault
                 /\ exitKind' = "fault"
                 /\ pc' = "exiting"
                 /\ UNCHANGED <<sleep_time, varied>>
            ELSE /\ \E s \in d.values :
                       /\ sleep_time' = s
                       /\ varied' = (varied \/ (i > 0 /\ s # sleep_time))
                 /\ pc' = "loop_sleep"
                 /\ UNCHANGED <<fault, exitKind>>
       ELSE /\ exitKind' = "return"
            /\ pc' = "exiting"
            /\ UNCHANGED <<fault, sleep_time, varied>>
    /\ UNCHANGED <<env, started, degraded, tor, site, ctx, sigs, args, probe,
                   res, i, slept, cnt, stp>>

\* time.sleep(sleep_time) runs to its end
LoopSleep ==
    /\ pc = "loop_sleep"
    /\ slept' = slept + 1
    /\ pc' = "loop_reload"
    /\ UNCHANGED <<env, started, degraded, tor, site, ctx, fault, exitKind,
                   sigs, args, probe, res, i, sleep_time, varied, cnt, stp>>

(***************************************************************************)
(* change_ip -> reload_tor_service, lines 91-127.  ok is the outcome of    *)
(* the platform's reload command.  In Docker the CalledProcessError of a   *)
(* failed pidof is caught; elsewhere the exit status of os.system /        *)
(* subprocess.run is not looked at.  On Windows outside Docker the service *)
(* is killed and restarted and wait_for_tor(timeout=30) is called.         *)
(***************************************************************************)
\* reload_tor_service without the except clause around pidof
ReloadFault_Uncaught(dock, ok) ==
    IF dock /\ ~ok THEN "CalledProcessError" ELSE "none"
ReloadFault(dock, ok) == "none"

Reload ==
    /\ pc = "loop_reload"
    /\ reloads' = reloads + 1
    /\ \E ok \in BOOLEAN :
          /\ docker /\ ok => tor
          /\ reloadOk' = (reloadOk \/ ok)
          /\ IF docker THEN tor' = tor
             ELSE IF windows THEN tor' = ok
             ELSE tor' \in {tor, ok}
          /\ IF ReloadFault(docker, ok) # "none"
             THEN /\ fault' = ReloadFault(docker, ok)
                  /\ exitKind' = "fault"
                  /\ pc' = "exiting"
                  /\ UNCHANGED probe
             ELSE IF windows /\ ~docker
             THEN /\ timeout' = ReloadTimeout /\ elapsed' = 0
                  /\ lastConn' = "none" /\ ready' = FALSE
                  /\ pc' = "wait_check"
                  /\ UNCHANGED <<fault, exitKind>>
             ELSE /\ pc' = "ma_begin"
                  /\ UNCHANGED <<fault, exitKind, probe>>
    /\ UNCHANGED <<env, started, degraded, site, ctx, sigs, args, res, loop,
                   resolves, stp>>

(***************************************************************************)
(* reload_tor_service, lines 113-122: the daemon thread that every reload  *)
(* on Windows outside Docker starts.  _log_tor_errors reads the lines of   *)
(* the Tor process's stderr and hands them to log_error; it touches no     *)
(* global and calls nothing else of the module.  The thread runs between   *)
(* any two steps of the main thread until the process ends.                *)
(***************************************************************************)
\* the process has not ended
Running == pc # "ended"

\* an error-draining thread that answers a Tor error with a reload
LogTorErrors_Reloading ==
    /\ Running
    /\ windows /\ ~docker /\ reloads > 0 /\ reloads < MaxCount
    /\ reloads' = reloads + 1
    /\ UNCHANGED <<env, tor, started, degraded, ctl, sigs, args, probe, res,
                   loop, reloadOk, resolves, stp>>
LogTorErrors ==
    /\ Running
    /\ windows /\ ~docker /\ reloads > 0
    /\ UNCHANGED vars

(***************************************************************************)
(* stop_services, lines 338-354.                                           *)
(***************************************************************************)
\* where stop_services returns to: signal_handler goes on to exit(0), main
\* with --stop to its return, the exit hooks were the last thing the process
\* did
StopReturn(c) ==
    IF c = "handler" THEN "handler_exit"
    ELSE IF c = "main" THEN "stop_ret"
    ELSE "ended"

\* Docker: pidof tor, kill it if found; otherwise stop_tor_service().
\* On Windows there is no pkill and stop_services returns.
StopBegin ==
    /\ pc = "stop_begin"
    /\ stopCalls' = stopCalls + 1
    /\ IF docker
       THEN IF tor THEN stopCmds' = stopCmds + 1 /\ tor' = FALSE
                   ELSE stopCmds' = stopCmds /\ tor' = tor
       ELSE stopCmds' = stopCmds + 1 /\ tor' \in {tor, FALSE}
    /\ pc' = IF windows THEN StopReturn(ctx) ELSE "stop_pkill"
    /\ UNCHANGED <<env, started, degraded, site, ctx, fault, exitKind, sigs,
                   args, probe, res, loop, cnt>>

\* os.system("pkill -f tornet"): SIGTERM to every process whose command
\* line matches, this one included if it does; otherwise stop_services
\* returns
StopPkill ==
    /\ pc = "stop_pkill"
    /\ IF selfMatch
       THEN pc' = "ended" /\ exitKind' = "killed"
       ELSE pc' = StopReturn(ctx) /\ exitKind' = exitKind
    /\ UNCHANGED <<env, started, degraded, tor, site, ctx, fault, sigs, args,
                   probe, res, loop, cnt, stp>>

\* main, lines 446-448: return after stop_services()
StopFlagReturn ==
    /\ pc = "stop_ret"
    /\ exitKind' = "return"
    /\ pc' = "exiting"
    /\ UNCHANGED <<env, started, degraded, tor, site, ctx, fault, sigs, args,
                   probe, res, loop, cnt, stp>>

(***************************************************************************)
(* signal_handler, lines 360-363: stop_services(), then exit(0).  The      *)
(* SystemExit unwinds the interrupted code; nothing in the program catches *)
(* it.                                                                     *)
(***************************************************************************)
\* a handler that returns into an interrupted sleep instead of exiting
AfterHandler_Resume(at) ==
    IF at = "Sleeping" THEN "loop_reload" ELSE "exiting"
AfterHandler(at) == "exiting"

HandlerExit ==
    /\ pc = "handler_exit"
    /\ pc' = AfterHandler(interrupted)
    /\ exitKind' = IF exitKind = "none" THEN "exit0" ELSE exitKind
    /\ UNCHANGED <<env, started, degraded, tor, site, ctx, fault, sigs, args,
                   probe, res, loop, cnt, stp>>

(***************************************************************************)
(* A signal arrives between two steps of the main thread.  With            *)
(* signal_handler installed for it the handler runs at once, whatever the  *)
(* main thread was doing (a sleep included).  The interrupted code is      *)
(* never resumed (the handler ends in exit(0) or with the process killed), *)
(* so the arguments and locals of the interrupted calls are dropped here   *)
(* rather than when the SystemExit unwinds them.  Otherwise the            *)
(* default disposition applies: SIGINT raises KeyboardInterrupt, the       *)
(* others end the process.                                                 *)
(***************************************************************************)
\* the controller's state at a position of the main thread
CtlState(p) ==
    CASE p \in {"start", "parse", "init_begin", "call_loop"} -> "Initializing"
      [] p \in {"wait_check", "wait_connect", "wait_backoff", "wait_ret",
                "ma_begin", "ma_normal", "ma_settle", "ma_second"} ->
            IF site = "loop" THEN "Rotating" ELSE "Initializing"
      [] p \in {"ma_ret", "print_ip"} ->
            IF site = "init" THEN "Initializing" ELSE "Reporting"
      [] p = "loop_head" -> "Idle"
      [] p = "loop_sleep" -> "Sleeping"
      [] p = "loop_reload" -> "Rotating"
      [] OTHER -> "Stopping"

SignalHandled(sig) ==
    /\ Running
    /\ sig \in PlatformSignals(windows) /\ sig \in handlers
    /\ signals < MaxSignals
    /\ signals' = signals + 1
    /\ interrupted' = IF signals = 0 THEN CtlState(pc) ELSE interrupted
    /\ ctx' = "handler"
    /\ pc' = "stop_begin"
    /\ timeout' = 0 /\ elapsed' = 0 /\ lastConn' = "none" /\ ready' = FALSE
    /\ ip1' = NoneIp /\ ip2' = NoneIp /\ ip' = NoneIp
    /\ torCalls' = 0 /\ normalCalls' = 0 /\ stale' = 0
    /\ sleep_time' = 0 /\ varied' = FALSE
    /\ interval' = NoArg /\ count' = 0
    /\ degraded' = FALSE
    /\ UNCHANGED <<env, started, tor, site, fault, exitKind, handlers,
                   atexitReg, atexitRan, i, slept, cnt, stp>>

SignalDefault(sig) ==
    /\ Running
    /\ sig \in PlatformSignals(windows) /\ sig \notin handlers
    /\ IF sig = "SIGINT"
       THEN /\ fault' = "KeyboardInterrupt"
            /\ exitKind' = IF exitKind = "none" THEN "fault" ELSE exitKind
            /\ pc' = "exiting"
       ELSE /\ fault' = fault
            /\ exitKind' = "killed"
            /\ pc' = "ended"
    /\ timeout' = 0 /\ elapsed' = 0 /\ lastConn' = "none" /\ ready' = FALSE
    /\ ip1' = NoneIp /\ ip2' = NoneIp /\ ip' = NoneIp
    /\ torCalls' = 0 /\ normalCalls' = 0 /\ stale' = 0
    /\ sleep_time' = 0 /\ varied' = FALSE
    /\ interval' = NoArg /\ count' = 0
    /\ degraded' = FALSE
    /\ UNCHANGED <<env, started, tor, site, ctx, sigs, i, slept, cnt, stp>>

(***************************************************************************)
(* Interpreter exit: after main returns, after an uncaught exception and   *)
(* after SystemExit the registered exit hooks run once (test_sample.py     *)
(* registers stop_services), then the process ends.                        *)
(***************************************************************************)
AtExit ==
    /\ pc = "exiting"
    /\ atexitReg /\ ~atexitRan
    /\ atexitRan' = TRUE
    /\ ctx' = "atexit"
    /\ pc' = "stop_begin"
    /\ UNCHANGED <<env, started, degraded, tor, site, fault, exitKind,
                   handlers, atexitReg, signals, interrupted, args, probe,
                   res, loop, cnt, stp>>

ProcessEnd ==
    /\ pc = "exiting"
    /\ ~(atexitReg /\ ~atexitRan)
    /\ pc' = "ended"
    /\ UNCHANGED <<env, started, degraded, tor, site, ctx, fault, exitKind,
                   sigs, args, probe, res, loop, cnt, stp>>

Next ==
    \/ MainRegister
    \/ TestRegister
    \/ ParseArgs
    \/ InitStart
    \/ WaitCheck
    \/ WaitConnect
    \/ WaitBackoff
    \/ WaitReturn
    \/ MaIpBegin
    \/ MaIpNormal
    \/ MaIpSettle
    \/ MaIpSecond
    \/ MaIpReturn
    \/ PrintIp
    \/ CallLoop
    \/ LoopHead
    \/ LoopSleep
    \/ Reload
    \/ LogTorErrors
    \/ StopBegin
    \/ StopPkill
    \/ StopFlagReturn
    \/ HandlerExit
    \/ \E sig \in Signals : SignalHandled(sig)
    \/ \E sig \in Signals : SignalDefault(sig)
    \/ AtExit
    \/ ProcessEnd

Spec == Init /\ [][Next]_vars

(***************************************************************************)
(* Progress.  The steps of the main thread that end by themselves: code    *)
(* that runs on, a sleep of a given length, a call with a timeout          *)
(* (socket.settimeout(5) in wait_for_tor, timeout=10 in ma_ip_tor).        *)
(* MaIpNormal is not among them: requests.get is called without a timeout  *)
(* (line 252) and returns only when the network answers or fails.  Signals *)
(* come from outside.                                                      *)
(***************************************************************************)
BoundedStep ==
    \/ MainRegister \/ TestRegister \/ ParseArgs \/ InitStart
    \/ WaitCheck \/ WaitConnect \/ WaitBackoff \/ WaitReturn
    \/ MaIpBegin \/ MaIpSettle \/ MaIpSecond \/ MaIpReturn \/ PrintIp
    \/ CallLoop \/ LoopHead \/ LoopSleep \/ Reload
    \/ StopBegin \/ StopPkill \/ StopFlagReturn \/ HandlerExit
    \/ AtExit \/ ProcessEnd

FairSpec == Init /\ [][Next]_vars /\ WF_vars(BoundedStep)

(***************************************************************************)
(* Vocabulary of the properties.                                           *)
(***************************************************************************)
\* positions of main, initialize_environment and the rotation loop
MainPcs == {"start", "parse", "init_begin", "wait_check", "wait_connect",
            "wait_backoff", "wait_ret", "ma_begin", "ma_settle", "ma_second",
            "ma_ret", "print_ip", "call_loop", "loop_head", "loop_sleep",
            "loop_reload", "ma_normal"}
WaitPcs == {"wait_check", "wait_connect", "wait_backoff", "wait_ret"}

LoopStarted == site = "loop"
Done == LoopStarted /\ exitKind = "return"
Cancelled == signals > 0

ValidInterval == SleepDraw(interval).fault = "none"
IsFixed == interval.type = "str" /\ IsNumeric(interval.v)
IsRange == /\ interval.type = "str"
           /\ Len(split(interval.v)) = 2
           /\ IsNumeric(split(interval.v)[1])
           /\ IsNumeric(split(interval.v)[2])
RangeMin == int(split(interval.v)[1])
RangeMax == int(split(interval.v)[2])

(***************************************************************************)
(* C1: in every run that starts the rotation controller stop_services is   *)
(* invoked exactly once per process lifetime, however the process ends:    *)
(* never more than once, and once the process has ended not zero times.    *)
(***************************************************************************)
C1_StopExactlyOnce ==
    LoopStarted =>
        /\ stopCalls <= 1
        /\ pc = "ended" => stopCalls = 1

(***************************************************************************)
(* C2: stop is guarded: however many times stop_services is called, from   *)
(* nested signal handlers or from the exit hook after the handler, only    *)
(* one service-stop command is issued.                                     *)
(***************************************************************************)
C2_OneStopCommand == stopCmds <= 1

(***************************************************************************)
(* C3: with a bounded count n >= 1 and a valid interval the loop performs  *)
(* exactly n cycles, each one sleep, then one reload, then one ma_ip, and  *)
(* then returns: it is never ahead of that order, never beyond n, and at   *)
(* its return n sleeps, n reloads and n resolves (after the one of the     *)
(* initialization) have been made.                                         *)
(***************************************************************************)
C3_ExactlyCountCycles ==
    LoopStarted /\ count >= 1 /\ ValidInterval =>
        /\ i <= count
        /\ slept \in {i, i + 1} /\ slept <= count
        /\ reloads \in {slept - 1, slept} /\ reloads >= i
        /\ resolves - 1 \in {reloads - 1, reloads} /\ resolves - 1 >= i
        /\ pc = "loop_head" =>
              slept = i /\ reloads = i /\ resolves = i + 1
        /\ exitKind = "return" =>
              i = count /\ slept = count /\ reloads = count
              /\ resolves = count + 1

C3_Witness ==
    Done /\ count = 3 /\ reloads = 3 /\ slept = 3 /\ resolves = 4
    /\ signals = 0 /\ pc = "ended"

(***************************************************************************)
(* C4: a handled signal that arrives during the loop's sleep starts the    *)
(* handler at once, the sleep is not run to its end, and once a signal has *)
(* been handled the main thread never again sleeps, reloads, resolves or   *)
(* reports.                                                                *)
(***************************************************************************)
C4_CancelDuringSleep ==
    [][ /\ (pc = "loop_sleep" /\ signals' > signals) =>
               (pc' = "stop_begin" /\ slept' = slept
                /\ (signals = 0 => interrupted' = "Sleeping"))
        /\ Cancelled =>
               (pc' \notin MainPcs /\ slept' = slept /\ reloads' = reloads
                /\ resolves' = resolves /\ i' = i) ]_vars

C4_Witness ==
    interrupted = "Sleeping" /\ pc = "ended" /\ slept = i /\ reloads = i
    /\ i = 1

(***************************************************************************)
(* C5: for an interval whose lower bound exceeds the upper one, or a       *)
(* non-numeric one, the configuration error is raised before the loop      *)
(* starts and before the service has been started, and no sleep and no     *)
(* reload is ever made.                                                    *)
(***************************************************************************)
C5_ConfigErrorBeforeStart ==
    /\ fault = "ValueError" => ~started /\ ~LoopStarted
    /\ LoopStarted /\ interval.type = "str" /\ ~ValidInterval =>
           slept = 0 /\ reloads = 0 /\ pc # "loop_sleep"

(***************************************************************************)
(* C6: for an interval "min-max" with min <= max the sleep_time of every   *)
(* iteration, in the bounded and in the unbounded loop, is an integer of   *)
(* min..max, drawn again in each iteration.                                *)
(***************************************************************************)
C6_RangeSleepWithinBounds ==
    LoopStarted /\ IsRange /\ RangeMin <= RangeMax /\ pc \in MainPcs
    /\ (pc # "loop_head" \/ i > 0) =>
        sleep_time \in RangeMin..RangeMax

C6_Witness ==
    LoopStarted /\ IsRange /\ RangeMin < RangeMax /\ pc = "loop_sleep"
    /\ i >= 1 /\ varied /\ sleep_time = RangeMax

(***************************************************************************)
(* C7: for a fixed interval d the sleep_time of every iteration is d, so   *)
(* no two iterations differ.                                               *)
(***************************************************************************)
C7_FixedSleepExact ==
    LoopStarted /\ IsFixed =>
        /\ ~varied
        /\ pc \in MainPcs /\ (pc # "loop_head" \/ i > 0) =>
               sleep_time = int(interval.v)

C7_Witness ==
    LoopStarted /\ interval = StrArg(Sixty) /\ pc = "loop_sleep" /\ i = 1
    /\ sleep_time = 60

(***************************************************************************)
(* C8: with the service running ma_ip resolves through the proxy exactly   *)
(* twice; two equal results are returned without a stale-circuit warning,  *)
(* two different non-empty results return the second with exactly one      *)
(* warning.                                                                *)
(***************************************************************************)
C8_ResolveCurrentTwice ==
    pc = "ma_ret" /\ normalCalls = 0 =>
        /\ torCalls = 2
        /\ ip1 = ip2 => ip = ip1 /\ stale = 0
        /\ (Truthy(ip1) /\ Truthy(ip2) /\ ip1 # ip2) => ip = ip2 /\ stale = 1

C8_Witness ==
    pc = "ma_ret" /\ torCalls = 2 /\ ip1 = "A" /\ ip2 = "B" /\ ip = "B"
    /\ stale = 1

(***************************************************************************)
(* C9: a failing reload never raises out of the loop, never skips a cycle  *)
(* and never ends the loop early: with a valid interval no exception       *)
(* leaves the loop, every completed iteration has made its reload, a       *)
(* bounded loop returns only after count reloads and the unbounded one     *)
(* never returns, whether or not any reload succeeded.                     *)
(***************************************************************************)
C9_ReloadFailureAbsorbed ==
    LoopStarted /\ ValidInterval =>
        /\ fault = "none"
        /\ exitKind # "fault"
        /\ reloads \in {i, i + 1}
        /\ exitKind = "return" =>
               count # 0 /\ (count > 0 => reloads = count)

C9_Witness ==
    Done /\ count = 3 /\ reloads = 3 /\ ~reloadOk /\ pc = "ended"

(***************************************************************************)
(* C10 as stated: the timeout is a hard deadline that no connection        *)
(* attempt and no back-off of wait_for_tor extends past.                   *)
(***************************************************************************)
C10_HardDeadline == pc \in WaitPcs => elapsed <= timeout

(***************************************************************************)
(* C10 amended: wait_for_tor returns True right after the first successful *)
(* attempt and False only once the timeout has elapsed; the deadline is    *)
(* looked at only before an attempt, so no attempt starts at or after it,  *)
(* and only the attempt in progress when it passes and the back-off after  *)
(* that attempt run past it, by less than SubTimeout + Backoff.  Every     *)
(* back-off moves the clock forward, so the wait ends.                     *)
(***************************************************************************)
C10_BoundedOvershoot ==
    /\ [](pc \in WaitPcs =>
            /\ elapsed < timeout + SubTimeout + Backoff
            /\ pc = "wait_connect" => elapsed < timeout
            /\ pc = "wait_ret" =>
                  /\ ready <=> lastConn = "ok"
                  /\ ~ready => elapsed >= timeout)
    /\ [][ /\ (pc = "wait_backoff" /\ pc' = "wait_check") =>
                  elapsed' > elapsed
           /\ (pc = "wait_connect" /\ lastConn' = "ok") =>
                  (pc' = "wait_ret" /\ ready') ]_vars

C10_Witness ==
    pc = "wait_ret" /\ ~ready /\ elapsed = timeout + SubTimeout + Backoff - 1

(***************************************************************************)
(* Steps that are no signal delivery: a handled signal is counted, a       *)
(* signal without handler ends the process as killed (SIGINT has a handler *)
(* from the first step on).                                                *)
(***************************************************************************)
NoSignalStep == signals' = signals /\ exitKind' # "killed"
Empty == {NoneIp, ""}

(***************************************************************************)
(* C11: with count = 0 (and an interval the loop accepts) the loop runs    *)
(* until it is cancelled: it never returns and never raises, whatever      *)
(* reload and ma_ip deliver, and only a signal takes the main thread out   *)
(* of the rotation.                                                        *)
(***************************************************************************)
C11_UnboundedNeverDone ==
    /\ [](LoopStarted /\ count = 0 /\ ValidInterval =>
             /\ ~Done
             /\ exitKind = "none" /\ fault = "none"
             /\ pc \in MainPcs)
    /\ [][ (LoopStarted /\ count = 0 /\ ValidInterval) =>
              \/ pc' \in MainPcs /\ count' = 0 /\ interval' = interval
              \/ ~NoSignalStep ]_vars

C11_Witness ==
    LoopStarted /\ count = 0 /\ ValidInterval /\ pc = "loop_head"
    /\ i = MaxCycles /\ reloads = MaxCycles /\ ~reloadOk /\ signals = 0

(***************************************************************************)
(* C12: when ma_ip returns None or the empty string in a loop iteration,   *)
(* print_ip is not called, the iteration ends and counts like any other,   *)
(* and the loop goes on: no fault, no return.                              *)
(***************************************************************************)
C12_EmptyResultSkipsReport ==
    /\ []((site = "loop" /\ pc = "print_ip") => ip \notin Empty)
    /\ [][ (pc = "ma_ret" /\ site = "loop" /\ ip \in Empty /\ NoSignalStep) =>
              /\ pc' = "loop_head"
              /\ i' = i + 1
              /\ fault' = fault /\ exitKind' = exitKind
              /\ count' = count /\ interval' = interval ]_vars

C12_Witness ==
    pc = "ma_ret" /\ site = "loop" /\ ip = NoneIp /\ count = 3 /\ i = 2
    /\ reloads = 3 /\ signals = 0

(***************************************************************************)
(* C13: after wait_for_tor has timed out in initialize_environment, the    *)
(* initialization goes on without fault and resolves the address directly, *)
(* with no resolve through the proxy and no settle delay.                  *)
(***************************************************************************)
C13_DegradedResolvesDirectly ==
    degraded =>
        /\ site = "init" /\ exitKind = "none" /\ fault = "none"
        /\ torCalls = 0
        /\ pc \notin {"ma_settle", "ma_second"}

(***************************************************************************)
(* C14: in signal_handler stop_services returns to the handler, and the    *)
(* handler then reaches exit(0): the stop sequence of the handler never    *)
(* ends the process itself.                                                *)
(***************************************************************************)
C14_HandlerExitsZero ==
    [][ /\ (ctx = "handler" /\ StopBegin /\ windows) => pc' = "handler_exit"
        /\ (ctx = "handler" /\ StopPkill) => pc' = "handler_exit"
        /\ HandlerExit => pc' = "exiting" ]_vars

(***************************************************************************)
(* C15: every blocking call has a deadline, so a rotation cycle that has   *)
(* reached its reload is always completed (or cancelled), even when the    *)
(* network never answers.                                                  *)
(***************************************************************************)
C15_EveryCycleCompletes ==
    (LoopStarted /\ pc = "loop_reload") ~>
        (pc = "loop_head" \/ pc \notin MainPcs)

(***************************************************************************)
(* C16: at most one rotation cycle is in flight: the reloads issued are    *)
(* never more than one ahead of the completed iterations, a reload is      *)
(* issued only by the main thread at the reload position of an iteration   *)
(* with no other one in flight, never by signal_handler, and a step that   *)
(* is neither one of the main thread nor a signal (one of the              *)
(* error-draining thread) leaves the controller's state as it is.          *)
(***************************************************************************)
C16_OneCycleInFlight ==
    /\ [](reloads \in {i, i + 1} /\ resolves \in {reloads, reloads + 1})
    /\ [][ reloads' # reloads =>
              /\ pc = "loop_reload" /\ ctx = "none"
              /\ reloads = i /\ reloads' = reloads + 1 ]_vars
    /\ [][ (pc' = pc /\ signals' = signals) =>
              UNCHANGED <<tor, site, i, slept, reloads, resolves, stopCalls,
                          stopCmds>> ]_vars

C16_Witness ==
    windows /\ ~docker /\ pc = "wait_connect" /\ site = "loop"
    /\ reloads = 2 /\ i = 1 /\ resolves = 2 /\ signals = 0

(***************************************************************************)
(* C17: with the service running ma_ip returns the second proxy result if  *)
(* it is not empty and the first one otherwise (so an empty result when    *)
(* both are); with the service not running it calls ma_ip_normal once,     *)
(* never ma_ip_tor, and returns without the settle delay.                  *)
(***************************************************************************)
C17_SecondElseFirst ==
    /\ [](pc = "ma_ret" =>
            /\ torCalls > 0 =>
                  /\ normalCalls = 0
                  /\ ip2 \notin Empty => ip = ip2
                  /\ ip2 \in Empty => ip = ip1
                  /\ (ip1 \in Empty /\ ip2 \in Empty) => ip \in Empty
            /\ torCalls = 0 => normalCalls = 1)
    /\ [](pc = "ma_normal" =>
            torCalls = 0 /\ normalCalls = 1 /\ ip1 = NoneIp /\ ip2 = NoneIp)
    /\ [][ /\ (pc = "ma_begin" /\ ~tor /\ NoSignalStep) => pc' = "ma_normal"
           /\ (pc = "ma_normal" /\ NoSignalStep) =>
                  (pc' = "ma_ret" /\ torCalls' = 0 /\ normalCalls' = 1) ]_vars

C17_Witness ==
    pc = "ma_ret" /\ torCalls = 2 /\ ip1 = "A" /\ ip2 = NoneIp /\ ip = "A"

(***************************************************************************)
(* C18: print_ip is called with a non-empty address only, from             *)
(* initialize_environment, from main with --ip and from the loop.          *)
(***************************************************************************)
C18_ReportOnlyNonEmpty == pc = "print_ip" => ip \notin Empty

(***************************************************************************)
(* C19: when the process calls start_tor_service, and in every state after *)
(* that, signal_handler is installed for SIGINT; a SIGINT after the start  *)
(* is never left to the default disposition and always starts              *)
(* stop_services in the handler.                                           *)
(***************************************************************************)
C19_HandlersBeforeStart ==
    /\ [](started => "SIGINT" \in handlers /\ fault # "KeyboardInterrupt")
    /\ [][ /\ started' => "SIGINT" \in handlers
           /\ handlers \subseteq handlers'
           /\ (started /\ signals' > signals) =>
                  (pc' = "stop_begin" /\ ctx' = "handler") ]_vars

C19_Witness ==
    entry = "main" /\ started /\ interrupted = "Initializing"
    /\ stopCalls = 1 /\ exitKind = "exit0" /\ pc = "ended"

(***************************************************************************)
(* C20: main run without --interval hands the default interval to the      *)
(* loop, and the loop then sleeps 60 in every iteration and raises no      *)
(* fault, as with --interval 60.                                           *)
(***************************************************************************)
C20_DefaultIntervalIsSixty ==
    (LoopStarted /\ interval = IntArg(Sixty)) =>
        /\ fault = "none" /\ exitKind # "fault"
        /\ pc = "loop_sleep" => sleep_time = 60

====
